---- MODULE Spec2Model ----
(***************************************************************************)
(* SymbolTable of oxc_semantic (crates/oxc_semantic/src/symbol/table.rs):  *)
(* two append-only vectors, `symbols` and `resolved_references`, addressed *)
(* by 1-based SymbolId / ResolvedReferenceId.                              *)
(*                                                                         *)
(* A Rust Vec is a TLA+ sequence: the element at 0-based position i of the *)
(* Vec is element i + 1 of the sequence.                                   *)
(***************************************************************************)
EXTENDS Integers, Sequences, FiniteSets, TLC

\* ------------------------------------------------------------------ bounds
MaxSymbols == 2
MaxArena == 3
MaxBatch == 2

\* ------------------------------------------------------------------ inputs
\* Arguments of create: (declaration, name, span, flags).
CreateInputs ==
    { [declaration |-> 11, name |-> "x", span |-> <<0, 1>>, flags |-> "Variable"] }

\* Payloads of caller-owned, unresolved Reference records.
References == {"a", "b"}

\* Vec<Reference> arguments of resolve_reference, the empty batch included.
Batches == UNION { [1..k -> References] : k \in 0..MaxBatch }

\* Id values callers pass: 0, every id that can be in range, one past the end;
\* the checked accessors are also probed far beyond the end.
SymbolIds == 0..(MaxSymbols + 1)
ResolvedReferenceIds == 0..(MaxArena + 1)
SymbolIdProbes == SymbolIds \cup {999}
ResolvedReferenceIdProbes == ResolvedReferenceIds \cup {999}

\* ------------------------------------------------------------------ results
None == [kind |-> "none"]
Some(v) == [kind |-> "some", val |-> v]
Trap == [kind |-> "trap"]
Ref(v) == [kind |-> "ref", val |-> v]
RefMut(v) == [kind |-> "ref_mut", val |-> v]
Unit == [kind |-> "unit"]
Id(n) == [kind |-> "id", val |-> n]

\* ------------------------------------------------------------------ types outside table.rs
\* SymbolId::new(n) / ResolvedReferenceId::new(n): the id is the 1-based number n.
SymbolId_new(n) == n
ResolvedReferenceId_new(n) == n

\* id.index0(): "internal storage index = id - 1".
index0(id) == id - 1

\* Symbol::new(id, declaration, name, span, flags): no references yet.
Symbol_new(id, declaration, name, span, flags) ==
    [id |-> id, declaration |-> declaration, name |-> name, span |-> span,
     flags |-> flags, references |-> <<>>]

\* reference.resolve_to(symbol_id): the Reference bound to symbol_id.
resolve_to(reference, symbol_id) ==
    [reference |-> reference, resolved_symbol_id |-> symbol_id]

\* ------------------------------------------------------------------ Vec
\* Vec::get(i): Some(&v[i]) when i < len, else None.
Vec_get(v, i) == IF i \in 0..(Len(v) - 1) THEN Some(v[i + 1]) ELSE None

\* v[i] with a usize i, read form: panics when i >= len.
Vec_index(v, i) == IF i \in 0..(Len(v) - 1) THEN Ref(v[i + 1]) ELSE Trap

\* v[i] with a usize i, read-write form: panics when i >= len.
Vec_index_mut(v, i) == IF i \in 0..(Len(v) - 1) THEN RefMut(v[i + 1]) ELSE Trap

\* self.symbols[symbol_id] (a Vec<Symbol> indexed by a SymbolId): the sequence
\* position of the Symbol, or 0 when the lookup traps.
Vec_position_of(v, symbol_id) ==
    IF index0(symbol_id) \in 0..(Len(v) - 1) THEN index0(symbol_id) + 1 ELSE 0

\* ------------------------------------------------------------------ SymbolTable, pure parts
\* impl Index<SymbolId> for SymbolTable
index_symbol(syms, index) == Vec_index(syms, index0(index))

\* Mutant: the id used as the storage index.
index_mut_symbol_raw_index(syms, index) == Vec_index_mut(syms, index)

\* impl IndexMut<SymbolId> for SymbolTable
index_mut_symbol(syms, index) == Vec_index_mut(syms, index0(index))

\* impl Index<ResolvedReferenceId> for SymbolTable
index_resolved_reference(rrs, index) == Vec_index(rrs, index0(index))

\* impl IndexMut<ResolvedReferenceId> for SymbolTable
index_mut_resolved_reference(rrs, index) == Vec_index_mut(rrs, index0(index))

\* SymbolTable::symbols
symbols_view(syms) == Ref(syms)

\* Mutant: the id used as the storage index.
get_symbol_raw_index(syms, id) == Vec_get(syms, id)

\* SymbolTable::get_symbol
get_symbol(syms, id) == Vec_get(syms, index0(id))

\* SymbolTable::resolved_references
resolved_references_view(rrs) == Ref(rrs)

\* Mutant: the id used as the storage index.
get_resolved_reference_raw_index(rrs, id) == Vec_get(rrs, id)

\* SymbolTable::get_resolved_reference
get_resolved_reference(rrs, id) == Vec_get(rrs, index0(id))

\* Mutant: the id minted from the length before the push, without the + 1.
create_id_from_len(syms, declaration, name, span, flags) ==
    LET symbol_id == SymbolId_new(Len(syms))
        symbol == Symbol_new(symbol_id, declaration, name, span, flags)
    IN [symbols |-> Append(syms, symbol), ret |-> symbol_id]

\* SymbolTable::create: the new vector and the returned id.
create(syms, declaration, name, span, flags) ==
    LET symbol_id == SymbolId_new(Len(syms) + 1)
        symbol == Symbol_new(symbol_id, declaration, name, span, flags)
    IN [symbols |-> Append(syms, symbol), ret |-> symbol_id]

\* Mutant: the id minted once, before the loop, and reused for the whole batch.
RECURSIVE resolve_loop_stale_id(_, _, _, _)
resolve_loop_stale_id(rrs, refs, references, symbol_id) ==
    IF references = <<>>
    THEN [resolved_references |-> rrs, references |-> refs]
    ELSE LET k == Len(references)
             resolved_reference_id == ResolvedReferenceId_new(Len(rrs) + 1)
         IN [resolved_references |->
                 rrs \o [j \in 1..k |-> resolve_to(references[j], symbol_id)],
             references |-> refs \o [j \in 1..k |-> resolved_reference_id]]

\* Mutant: the batch consumed from its end (pop) instead of from its front.
RECURSIVE resolve_loop_from_end(_, _, _, _)
resolve_loop_from_end(rrs, refs, references, symbol_id) ==
    IF references = <<>>
    THEN [resolved_references |-> rrs, references |-> refs]
    ELSE LET resolved_reference_id == ResolvedReferenceId_new(Len(rrs) + 1)
             resolved_reference ==
                 resolve_to(references[Len(references)], symbol_id)
         IN resolve_loop_from_end(Append(rrs, resolved_reference),
                                  Append(refs, resolved_reference_id),
                                  SubSeq(references, 1, Len(references) - 1),
                                  symbol_id)

\* The for loop of resolve_reference: rrs is self.resolved_references, refs is
\* symbol.references, references the part of the batch not yet consumed.
RECURSIVE resolve_loop(_, _, _, _)
resolve_loop(rrs, refs, references, symbol_id) ==
    IF references = <<>>
    THEN [resolved_references |-> rrs, references |-> refs]
    ELSE LET resolved_reference_id == ResolvedReferenceId_new(Len(rrs) + 1)
             resolved_reference == resolve_to(Head(references), symbol_id)
         IN resolve_loop(Append(rrs, resolved_reference),
                         Append(refs, resolved_reference_id),
                         Tail(references), symbol_id)

\* Mutant: the symbol looked up inside the loop, so an empty batch looks nothing up.
resolve_reference_lookup_in_loop(syms, rrs, references, symbol_id) ==
    LET pos == Vec_position_of(syms, symbol_id)
    IN IF references = <<>>
       THEN [symbols |-> syms, resolved_references |-> rrs, ret |-> Unit]
       ELSE IF pos = 0
       THEN [symbols |-> syms, resolved_references |-> rrs, ret |-> Trap]
       ELSE LET out == resolve_loop(rrs, syms[pos].references, references, symbol_id)
            IN [symbols |-> [syms EXCEPT ![pos].references = out.references],
                resolved_references |-> out.resolved_references,
                ret |-> Unit]

\* Mutant: symbol.references assigned the batch's ids instead of extended by them.
resolve_reference_overwrite(syms, rrs, references, symbol_id) ==
    LET pos == Vec_position_of(syms, symbol_id)
    IN IF pos = 0
       THEN [symbols |-> syms, resolved_references |-> rrs, ret |-> Trap]
       ELSE LET out == resolve_loop(rrs, <<>>, references, symbol_id)
            IN [symbols |-> [syms EXCEPT ![pos].references = out.references],
                resolved_references |-> out.resolved_references,
                ret |-> Unit]

\* Mutant: the ids pushed to the newest symbol (symbols.last_mut()) instead of
\* the one looked up.
resolve_reference_to_last(syms, rrs, references, symbol_id) ==
    LET pos == Vec_position_of(syms, symbol_id)
    IN IF pos = 0
       THEN [symbols |-> syms, resolved_references |-> rrs, ret |-> Trap]
       ELSE LET out == resolve_loop(rrs, syms[Len(syms)].references, references,
                                    symbol_id)
            IN [symbols |-> [syms EXCEPT ![Len(syms)].references = out.references],
                resolved_references |-> out.resolved_references,
                ret |-> Unit]

\* Mutant: the batch pushed to the arena first, the symbol looked up after it.
resolve_reference_lookup_after_arena(syms, rrs, references, symbol_id) ==
    LET pos == Vec_position_of(syms, symbol_id)
    IN IF pos = 0
       THEN [symbols |-> syms,
             resolved_references |->
                 resolve_loop(rrs, <<>>, references, symbol_id).resolved_references,
             ret |-> Trap]
       ELSE LET out == resolve_loop(rrs, syms[pos].references, references, symbol_id)
            IN [symbols |-> [syms EXCEPT ![pos].references = out.references],
                resolved_references |-> out.resolved_references,
                ret |-> Unit]

\* SymbolTable::resolve_reference: the symbol lookup, then the loop.  The two
\* reserve calls change capacities only, which no operation observes.
resolve_reference(syms, rrs, references, symbol_id) ==
    LET pos == Vec_position_of(syms, symbol_id)
    IN IF pos = 0
       THEN [symbols |-> syms, resolved_references |-> rrs, ret |-> Trap]
       ELSE LET out == resolve_loop(rrs, syms[pos].references, references, symbol_id)
            IN [symbols |-> [syms EXCEPT ![pos].references = out.references],
                resolved_references |-> out.resolved_references,
                ret |-> Unit]

\* ------------------------------------------------------------------ state
VARIABLES
    symbols,              \* SymbolTable.symbols
    resolved_references,  \* SymbolTable.resolved_references
    last,                 \* the latest call: its name, argument and result
    create_log,           \* history: the create calls, in call order
    resolve_log,          \* history: the resolve_reference calls that committed entries
    committed,            \* history: both vectors as the latest mutation left them
    written,              \* history: a slot was written through a mutable borrow
    calls,                \* per thread: the resolve_reference call it is inside of
    interleaved,          \* history: a call took a step while another was under way
    placed                \* history: per listed id, where its entry went in the arena

race == <<calls, interleaved, placed>>

vars == <<symbols, resolved_references, last, create_log, resolve_log, committed,
          written, calls, interleaved, placed>>

store == <<symbols, resolved_references>>

\* The threads of a caller that does not keep to the single-writer discipline.
Threads == {1, 2}

IdleCall == [pc |-> "idle", references |-> <<>>, symbol_id |-> 0, pos |-> 0,
             resolved_reference_id |-> 0, entry_pos |-> 0]

Init ==
    /\ symbols = <<>>
    /\ resolved_references = <<>>
    /\ last = [op |-> "new", arg |-> <<>>, ret |-> Unit]
    /\ create_log = <<>>
    /\ resolve_log = <<>>
    /\ committed = <<<<>>, <<>>>>
    /\ written = FALSE
    /\ calls = [t \in Threads |-> IdleCall]
    /\ interleaved = FALSE
    /\ placed = {}

\* A trap aborts the analysis: nothing runs after it.
Running == last.ret.kind # "trap"

ReadOps == {"symbols", "resolved_references", "get_symbol", "get_resolved_reference",
            "index_symbol", "index_resolved_reference"}

\* ------------------------------------------------------------------ mutators
Create(input) ==
    /\ Running
    /\ Len(symbols) < MaxSymbols
    /\ LET out == create(symbols, input.declaration, input.name, input.span, input.flags)
       IN /\ symbols' = out.symbols
          /\ last' = [op |-> "create", arg |-> input, ret |-> Id(out.ret)]
          /\ create_log' = Append(create_log, [arg |-> input, ret |-> out.ret])
          /\ committed' = <<out.symbols, resolved_references>>
    /\ UNCHANGED <<resolved_references, resolve_log, written, race>>

ResolveReference(references, symbol_id) ==
    /\ Running
    /\ Len(resolved_references) + Len(references) <= MaxArena
    /\ LET out == resolve_reference(symbols, resolved_references, references, symbol_id)
           call == [references |-> references, symbol_id |-> symbol_id]
       IN /\ symbols' = out.symbols
          /\ resolved_references' = out.resolved_references
          /\ last' = [op |-> "resolve_reference", arg |-> call, ret |-> out.ret]
          /\ resolve_log' = IF out.ret = Trap \/ references = <<>>
                            THEN resolve_log
                            ELSE Append(resolve_log, call)
          /\ committed' = <<out.symbols, out.resolved_references>>
    /\ UNCHANGED <<create_log, written, race>>

\* ------------------------------------------------------------------ accessors
\* Mutant: the vector moved out to the caller (mem::take), leaving the store empty.
Symbols_taking ==
    /\ Running
    /\ last' = [op |-> "symbols", arg |-> <<>>, ret |-> symbols_view(symbols)]
    /\ symbols' = <<>>
    /\ UNCHANGED <<resolved_references, create_log, resolve_log, committed, written, race>>

Symbols ==
    /\ Running
    /\ last' = [op |-> "symbols", arg |-> <<>>, ret |-> symbols_view(symbols)]
    /\ UNCHANGED <<symbols, resolved_references, create_log, resolve_log, committed,
                   written, race>>

ResolvedReferences ==
    /\ Running
    /\ last' = [op |-> "resolved_references", arg |-> <<>>,
                ret |-> resolved_references_view(resolved_references)]
    /\ UNCHANGED <<symbols, resolved_references, create_log, resolve_log, committed,
                   written, race>>

GetSymbol(id) ==
    /\ Running
    /\ last' = [op |-> "get_symbol", arg |-> id, ret |-> get_symbol(symbols, id)]
    /\ UNCHANGED <<symbols, resolved_references, create_log, resolve_log, committed,
                   written, race>>

GetResolvedReference(id) ==
    /\ Running
    /\ last' = [op |-> "get_resolved_reference", arg |-> id,
                ret |-> get_resolved_reference(resolved_references, id)]
    /\ UNCHANGED <<symbols, resolved_references, create_log, resolve_log, committed,
                   written, race>>

IndexSymbol(id) ==
    /\ Running
    /\ last' = [op |-> "index_symbol", arg |-> id, ret |-> index_symbol(symbols, id)]
    /\ UNCHANGED <<symbols, resolved_references, create_log, resolve_log, committed,
                   written, race>>

\* index_mut hands out the mutable borrow; by itself it writes nothing.
IndexMutSymbol(id) ==
    /\ Running
    /\ last' = [op |-> "index_mut_symbol", arg |-> id,
                ret |-> index_mut_symbol(symbols, id)]
    /\ UNCHANGED <<symbols, resolved_references, create_log, resolve_log, committed,
                   written, race>>

IndexResolvedReference(id) ==
    /\ Running
    /\ last' = [op |-> "index_resolved_reference", arg |-> id,
                ret |-> index_resolved_reference(resolved_references, id)]
    /\ UNCHANGED <<symbols, resolved_references, create_log, resolve_log, committed,
                   written, race>>

IndexMutResolvedReference(id) ==
    /\ Running
    /\ last' = [op |-> "index_mut_resolved_reference", arg |-> id,
                ret |-> index_mut_resolved_reference(resolved_references, id)]
    /\ UNCHANGED <<symbols, resolved_references, create_log, resolve_log, committed,
                   written, race>>

\* ------------------------------------------------------------------ specification
\* The calls table.rs offers.  What a caller stores through a borrow handed out
\* by index_mut is no code of table.rs; NextMut below adds it.
Next ==
    \/ \E input \in CreateInputs : Create(input)
    \/ \E references \in Batches, symbol_id \in SymbolIds :
           ResolveReference(references, symbol_id)
    \/ Symbols
    \/ ResolvedReferences
    \/ \E id \in SymbolIdProbes : GetSymbol(id)
    \/ \E id \in ResolvedReferenceIdProbes : GetResolvedReference(id)
    \/ \E id \in SymbolIds : IndexSymbol(id)
    \/ \E id \in SymbolIds : IndexMutSymbol(id)
    \/ \E id \in ResolvedReferenceIds : IndexResolvedReference(id)
    \/ \E id \in ResolvedReferenceIds : IndexMutResolvedReference(id)

Spec == Init /\ [][Next]_vars

\* ------------------------------------------------------------------ writes through index_mut
\* table[id] in its read-write form returns `&mut Symbol` / `&mut ResolvedReference`:
\* while the caller holds that borrow it may store any value of the type in the
\* slot (an assignment, mem::replace, mem::swap with a record of another table).
\* The model follows a run through its first such write and on from there; a
\* second write is the same kind of step.
ForeignSymbol == Symbol_new(7, 21, "z", <<8, 9>>, "Import")
ForeignResolvedReference == resolve_to("z", 7)

WriteSymbol ==
    /\ Running
    /\ ~written
    /\ last.op = "index_mut_symbol"
    /\ last.ret.kind = "ref_mut"
    /\ LET pos == index0(last.arg) + 1
       IN /\ symbols' = [symbols EXCEPT ![pos] = ForeignSymbol]
          /\ committed' = <<symbols', resolved_references>>
    /\ last' = [op |-> "write_symbol", arg |-> last.arg, ret |-> Unit]
    /\ written' = TRUE
    /\ UNCHANGED <<resolved_references, create_log, resolve_log, race>>

WriteResolvedReference ==
    /\ Running
    /\ ~written
    /\ last.op = "index_mut_resolved_reference"
    /\ last.ret.kind = "ref_mut"
    /\ LET pos == index0(last.arg) + 1
       IN /\ resolved_references' =
                 [resolved_references EXCEPT ![pos] = ForeignResolvedReference]
          /\ committed' = <<symbols, resolved_references'>>
    /\ last' = [op |-> "write_resolved_reference", arg |-> last.arg, ret |-> Unit]
    /\ written' = TRUE
    /\ UNCHANGED <<symbols, create_log, resolve_log, race>>

WriteOps == {"write_symbol", "write_resolved_reference"}

\* The build phase of a caller that holds valid ids and uses the read-write
\* form of indexing to write.
NextMut ==
    \/ \E input \in CreateInputs : Create(input)
    \/ \E references \in Batches, symbol_id \in 1..Len(symbols) :
           ResolveReference(references, symbol_id)
    \/ \E id \in 1..Len(symbols) : IndexMutSymbol(id)
    \/ \E id \in 1..Len(resolved_references) : IndexMutResolvedReference(id)
    \/ WriteSymbol
    \/ WriteResolvedReference

SpecMut == Init /\ [][NextMut]_vars

\* ------------------------------------------------------------------ resolve_reference, step by step
\* The steps of one pass of the loop of resolve_reference, for callers that run
\* two calls at once: the length read to mint the id, the push to the arena,
\* the push to the symbol's list.  Each step is taken whole; the calls share
\* both vectors without any lock.

\* Mutant: the id minted from the length, without the + 1.
next_resolved_reference_id_from_len(rrs) == ResolvedReferenceId_new(Len(rrs))

\* ResolvedReferenceId::new(self.resolved_references.len() + 1)
next_resolved_reference_id(rrs) == ResolvedReferenceId_new(Len(rrs) + 1)

OthersUnderWay(t) == \E u \in Threads \ {t} : calls[u].pc # "idle"

Unconsumed == LET n(t) == Len(calls[t].references) IN n(1) + n(2)

\* Lines 95-100: the batch taken over, the symbol looked up, capacity reserved.
RaceBegin(t, references, symbol_id) ==
    /\ Running
    /\ calls[t].pc = "idle"
    /\ references # <<>>
    /\ Vec_position_of(symbols, symbol_id) # 0
    /\ Len(resolved_references) + Unconsumed + Len(references) <= MaxArena
    /\ calls' = [calls EXCEPT ![t] =
                    [pc |-> "mint", references |-> references,
                     symbol_id |-> symbol_id,
                     pos |-> Vec_position_of(symbols, symbol_id),
                     resolved_reference_id |-> 0, entry_pos |-> 0]]
    /\ interleaved' = (interleaved \/ OthersUnderWay(t))
    /\ UNCHANGED <<symbols, resolved_references, last, create_log, resolve_log,
                   committed, written, placed>>

\* Lines 103-104: the id minted from the length of the arena.
RaceMint(t) ==
    /\ Running
    /\ calls[t].pc = "mint"
    /\ calls' = [calls EXCEPT
                    ![t].resolved_reference_id =
                        next_resolved_reference_id(resolved_references),
                    ![t].pc = "push_entry"]
    /\ interleaved' = (interleaved \/ OthersUnderWay(t))
    /\ UNCHANGED <<symbols, resolved_references, last, create_log, resolve_log,
                   committed, written, placed>>

\* Lines 105-106: the reference resolved and pushed to the arena.
RacePushEntry(t) ==
    /\ Running
    /\ calls[t].pc = "push_entry"
    /\ resolved_references' =
           Append(resolved_references,
                  resolve_to(Head(calls[t].references), calls[t].symbol_id))
    /\ calls' = [calls EXCEPT ![t].entry_pos = Len(resolved_references) + 1,
                              ![t].pc = "push_id"]
    /\ interleaved' = (interleaved \/ OthersUnderWay(t))
    /\ UNCHANGED <<symbols, last, create_log, resolve_log, committed, written,
                   placed>>

\* Line 108: the id pushed to the symbol's list; the loop goes on or ends.
RacePushId(t) ==
    /\ Running
    /\ calls[t].pc = "push_id"
    /\ symbols' = [symbols EXCEPT ![calls[t].pos].references =
                      Append(@, calls[t].resolved_reference_id)]
    /\ placed' = placed \cup {[id |-> calls[t].resolved_reference_id,
                               pos |-> calls[t].entry_pos]}
    /\ calls' = [calls EXCEPT
                    ![t] = IF Tail(calls[t].references) = <<>>
                           THEN IdleCall
                           ELSE [calls[t] EXCEPT !.references = Tail(@),
                                                 !.pc = "mint"]]
    /\ interleaved' = (interleaved \/ OthersUnderWay(t))
    /\ UNCHANGED <<resolved_references, last, create_log, resolve_log, committed,
                   written>>

\* Symbols are created while no call is under way.
RaceCreate(input) ==
    /\ \A t \in Threads : calls[t].pc = "idle"
    /\ Create(input)

NextRace ==
    \/ \E input \in CreateInputs : RaceCreate(input)
    \/ \E t \in Threads, references \in Batches, symbol_id \in SymbolIds :
           RaceBegin(t, references, symbol_id)
    \/ \E t \in Threads : RaceMint(t)
    \/ \E t \in Threads : RacePushEntry(t)
    \/ \E t \in Threads : RacePushId(t)

SpecRace == Init /\ [][NextRace]_vars

\* ------------------------------------------------------------------ helpers of the properties
\* The element at 0-based position i of a Vec.
VecAt(v, i) == v[i + 1]

IsPrefix(s, t) == Len(s) <= Len(t) /\ SubSeq(t, 1, Len(s)) = s

\* The ids i of the arena whose entry is bound to sid, in arena (commit) order.
IdsBoundTo(sid) ==
    SelectSeq([i \in 1..Len(resolved_references) |-> i],
              LAMBDA i : resolved_references[i].resolved_symbol_id = sid)

\* The entries the logged calls committed, call after call.
RECURSIVE EntriesOfCalls(_)
EntriesOfCalls(log) ==
    IF log = <<>> THEN <<>>
    ELSE LET c == log[Len(log)]
         IN EntriesOfCalls(SubSeq(log, 1, Len(log) - 1)) \o
            [j \in 1..Len(c.references) |->
                [reference |-> c.references[j], resolved_symbol_id |-> c.symbol_id]]

\* The ids the logged calls for sid were given, call after call: a call's ids
\* follow the ids of all the calls before it, whatever their symbol.
RECURSIVE IdsOfCalls(_, _)
IdsOfCalls(log, sid) ==
    IF log = <<>> THEN <<>>
    ELSE LET c == log[Len(log)]
             before == SubSeq(log, 1, Len(log) - 1)
             offset == Len(EntriesOfCalls(before))
         IN IdsOfCalls(before, sid) \o
            (IF c.symbol_id = sid
             THEN [j \in 1..Len(c.references) |-> offset + j]
             ELSE <<>>)

\* ------------------------------------------------------------------ C1
\* C1: the k-th create call returns SymbolId k, and in every reachable state
\* symbols()[i-1] is the Symbol built from the i-th create call's arguments,
\* with id field i.
C1_CreateReturnsDenseIds ==
    /\ Len(symbols_view(symbols).val) = Len(create_log)
    /\ \A i \in 1..Len(create_log) :
          LET s == VecAt(symbols_view(symbols).val, i - 1)
              a == create_log[i].arg
          IN /\ create_log[i].ret = i
             /\ s.id = i
             /\ s.declaration = a.declaration
             /\ s.name = a.name
             /\ s.span = a.span
             /\ s.flags = a.flags

\* Two creates with a resolution between them; the second returned 2.
C1_Witness ==
    /\ last.op = "create"
    /\ last.ret = Id(2)
    /\ Len(create_log) = 2
    /\ Len(resolved_references) >= 1

\* ------------------------------------------------------------------ C2
\* C2: resolve_reference(refs, sid) for an existing symbol sid and a batch of
\* length k grows the arena from L to L + k, the entries at ids L+1..L+k are
\* refs in input order, each bound to sid, and exactly L+1..L+k are appended in
\* that order to the references of the symbol whose id is sid.
C2_ResolveStep ==
    (last'.op = "resolve_reference" /\ last'.ret = Unit) =>
        LET refs == last'.arg.references
            sid == last'.arg.symbol_id
            L == Len(resolved_references)
            k == Len(refs)
        IN /\ Len(resolved_references') = L + k
           /\ \A j \in 1..k :
                 resolved_references'[L + j] =
                     [reference |-> refs[j], resolved_symbol_id |-> sid]
           /\ \E p \in 1..Len(symbols') : symbols'[p].id = sid
           /\ \A p \in 1..Len(symbols') :
                 symbols'[p].id = sid =>
                     symbols'[p].references =
                         symbols[p].references \o [j \in 1..k |-> L + j]

C2_ResolveAppendsBatch == [][C2_ResolveStep]_vars

\* A batch of two different references committed to symbol 2 on top of one entry.
C2_Witness ==
    /\ last.op = "resolve_reference"
    /\ last.ret = Unit
    /\ last.arg.symbol_id = 2
    /\ last.arg.references = <<"b", "a">>
    /\ Len(resolved_references) = 3

\* ------------------------------------------------------------------ C3
\* C3: for every symbol s, s.references is exactly the sequence of the ids whose
\* arena entry is bound to s.id, in commit order.
C3_ReferencesAreOwnIds ==
    \A p \in 1..Len(symbols) : symbols[p].references = IdsBoundTo(symbols[p].id)

\* Two symbols with interleaved resolutions.
C3_Witness ==
    /\ Len(symbols) = 2
    /\ symbols[1].references = <<1, 3>>
    /\ symbols[2].references = <<2>>

\* ------------------------------------------------------------------ C4
\* C4: with n symbols created, get_symbol(id) never traps, returns the Symbol
\* whose id field is id iff 1 <= id <= n, and absent otherwise.
C4_GetSymbolChecked ==
    last.op = "get_symbol" =>
        LET n == Len(create_log)
        IN /\ last.ret.kind \in {"some", "none"}
           /\ last.ret.kind = "some" <=> last.arg \in 1..n
           /\ last.ret.kind = "some" =>
                 last.ret.val.id = last.arg /\ last.ret.val = symbols[last.arg]

\* get_symbol(0) on a store of two symbols.
C4_Witness ==
    /\ last.op = "get_symbol"
    /\ last.arg = 0
    /\ last.ret = None
    /\ Len(create_log) = 2

\* ------------------------------------------------------------------ C5
\* C5: with m committed resolved references, get_resolved_reference(id) never
\* traps, returns the id-th committed ResolvedReference if 1 <= id <= m, and
\* absent for every out-of-range id.
C5_GetResolvedReferenceChecked ==
    last.op = "get_resolved_reference" =>
        LET done == EntriesOfCalls(resolve_log)
            m == Len(done)
        IN /\ last.ret.kind \in {"some", "none"}
           /\ last.arg \in 1..m => last.ret = Some(done[last.arg])
           /\ last.arg \notin 1..m => last.ret = None

\* The second of three committed references looked up.
C5_Witness ==
    /\ last.op = "get_resolved_reference"
    /\ last.arg = 2
    /\ last.ret.kind = "some"
    /\ Len(resolved_references) = 3

\* ------------------------------------------------------------------ C6
\* C6: resolve_reference(refs, symbol_id) traps exactly when symbol_id is outside
\* 1..number of created symbols, for every batch, the empty batch included.
C6_ResolveTrapsOnUnknownSymbol ==
    last.op = "resolve_reference" =>
        /\ last.ret \in {Trap, Unit}
        /\ last.ret = Trap <=> last.arg.symbol_id \notin 1..Len(create_log)

\* The empty batch resolved to id 3 of a store of two symbols.
C6_Witness ==
    /\ last.op = "resolve_reference"
    /\ last.ret = Trap
    /\ last.arg.references = <<>>
    /\ last.arg.symbol_id = 3
    /\ Len(create_log) = 2

\* ------------------------------------------------------------------ C7
AppendOnlyStep ==
    /\ Len(symbols') >= Len(symbols)
    /\ Len(resolved_references') >= Len(resolved_references)
    /\ \A i \in 1..Len(resolved_references) :
          i <= Len(resolved_references') /\ resolved_references'[i] = resolved_references[i]
    /\ \A i \in 1..Len(symbols) :
          /\ i <= Len(symbols')
          /\ symbols'[i].id = symbols[i].id
          /\ symbols'[i].declaration = symbols[i].declaration
          /\ symbols'[i].name = symbols[i].name
          /\ symbols'[i].span = symbols[i].span
          /\ symbols'[i].flags = symbols[i].flags
          /\ IsPrefix(symbols[i].references, symbols'[i].references)

C8_BatchesInCallOrder ==
    /\ resolved_references = EntriesOfCalls(resolve_log)
    /\ \A p \in 1..Len(symbols) :
          symbols[p].references = IdsOfCalls(resolve_log, symbols[p].id)

\* Symbol 2 resolved first, then symbol 1, then symbol 2 again.
C8_Witness ==
    /\ Len(resolve_log) = 3
    /\ resolve_log[1].symbol_id = 2
    /\ resolve_log[2].symbol_id = 1
    /\ resolve_log[3].symbol_id = 2
    /\ symbols[2].references = <<1, 3>>

\* ------------------------------------------------------------------ C9
\* C9: table[id], read and read-write, by SymbolId and by ResolvedReferenceId,
\* traps exactly when id is outside 1..length of its arena, and otherwise yields
\* the record the checked accessor returns for id, the one at position id - 1.
C9_IndexTrapsOrAgrees ==
    /\ last.op \in {"index_symbol", "index_mut_symbol"} =>
          /\ last.ret = Trap <=> last.arg \notin 1..Len(symbols)
          /\ last.ret # Trap =>
                /\ get_symbol(symbols, last.arg) = Some(last.ret.val)
                /\ last.ret.val = VecAt(symbols_view(symbols).val, last.arg - 1)
    /\ last.op \in {"index_resolved_reference", "index_mut_resolved_reference"} =>
          /\ last.ret = Trap <=> last.arg \notin 1..Len(resolved_references)
          /\ last.ret # Trap =>
                /\ get_resolved_reference(resolved_references, last.arg) =
                       Some(last.ret.val)
                /\ last.ret.val =
                       VecAt(resolved_references_view(resolved_references).val,
                             last.arg - 1)

\* The read-write index of the second of two symbols.
C9_Witness ==
    /\ last.op = "index_mut_symbol"
    /\ last.arg = 2
    /\ last.ret.kind = "ref_mut"
    /\ Len(symbols) = 2

\* ------------------------------------------------------------------ C10
\* What a read accessor returns on the vectors c = <<symbols, resolved_references>>.
ReadResult(op, arg, c) ==
    CASE op = "symbols" -> symbols_view(c[1])
      [] op = "resolved_references" -> resolved_references_view(c[2])
      [] op = "get_symbol" -> get_symbol(c[1], arg)
      [] op = "get_resolved_reference" -> get_resolved_reference(c[2], arg)
      [] op = "index_symbol" -> index_symbol(c[1], arg)
      [] op = "index_resolved_reference" -> index_resolved_reference(c[2], arg)

\* C10: a read accessor leaves both arenas and every references list unchanged,
\* and what it returns is what it returns on the store as the latest create or
\* resolve_reference left it, so that two calls with the same argument and no
\* mutation between them return the same.
C10_ReadStep ==
    last'.op \in ReadOps =>
        /\ symbols' = symbols
        /\ resolved_references' = resolved_references
        /\ last'.ret = ReadResult(last'.op, last'.arg, committed)

C10_ReadsArePure == [][C10_ReadStep]_vars

\* A read-only index of a store that holds two symbols and three references.
C10_Witness ==
    /\ last.op = "index_resolved_reference"
    /\ last.ret.kind = "ref"
    /\ Len(symbols) = 2
    /\ Len(resolved_references) = 3

\* ------------------------------------------------------------------ C11
\* C11: create leaves the arena and every existing Symbol, its references
\* included, unchanged, and the new Symbol has no references;
\* resolve_reference(refs, sid) leaves the number of symbols, every arena entry
\* that existed and the references of every symbol other than sid unchanged.
C11_MutatorStep ==
    /\ last'.op = "create" =>
          /\ resolved_references' = resolved_references
          /\ Len(symbols') = Len(symbols) + 1
          /\ \A i \in 1..Len(symbols) : symbols'[i] = symbols[i]
          /\ symbols'[Len(symbols')].references = <<>>
    /\ last'.op = "resolve_reference" =>
          /\ Len(symbols') = Len(symbols)
          /\ Len(resolved_references') >= Len(resolved_references)
          /\ \A i \in 1..Len(resolved_references) :
                resolved_references'[i] = resolved_references[i]
          /\ \A p \in 1..Len(symbols) :
                symbols[p].id # last'.arg.symbol_id =>
                    symbols'[p].references = symbols[p].references

C11_MutatorsFrame == [][C11_MutatorStep]_vars

\* One reference resolved to symbol 2 after two were resolved to symbol 1.
C11_Witness ==
    /\ last.op = "resolve_reference"
    /\ last.arg.symbol_id = 2
    /\ Len(last.arg.references) = 1
    /\ Len(resolved_references) = 3
    /\ symbols[1].references = <<1, 2>>
    /\ symbols[2].references = <<3>>

\* ------------------------------------------------------------------ C12
\* Two entries were given the same id, or a listed id is not the id of the
\* arena position its entry went to.
RaceDamage ==
    \/ \E r1, r2 \in placed : r1.pos # r2.pos /\ r1.id = r2.id
    \/ \E r \in placed : r.id # r.pos

\* C12: when every resolve_reference call runs from its first step to its last
\* with no step of another call in between, no id is given twice and every
\* listed id designates the entry created for it; the steps of two calls
\* interleaved reach a state where that fails (C12_Witness).
C12_AtomicCallsDoNoDamage == ~interleaved => ~RaceDamage

\* Two calls interleaved: both minted the same id before either pushed.
C12_Witness ==
    /\ interleaved
    /\ \E r1, r2 \in placed : r1.pos # r2.pos /\ r1.id = r2.id
    /\ \A t \in Threads : calls[t].pc = "idle"

\* ------------------------------------------------------------------ C13
\* How often id occurs in the sequence s.
RECURSIVE Occurrences(_, _)
Occurrences(s, id) ==
    IF s = <<>> THEN 0
    ELSE (IF Head(s) = id THEN 1 ELSE 0) + Occurrences(Tail(s), id)

RECURSIVE SumOfLengths(_)
SumOfLengths(syms) ==
    IF syms = <<>> THEN 0
    ELSE Len(Head(syms).references) + SumOfLengths(Tail(syms))

\* C13: the SymbolId of every ResolvedReference is the id of an existing Symbol;
\* every listed id lies in 1..length of the arena; every references list is
\* strictly increasing; every id of the arena occurs in exactly one list,
\* exactly once, so the lengths of the lists sum to the length of the arena.
C13_ReferentialIntegrity ==
    /\ \A i \in 1..Len(resolved_references) :
          \E p \in 1..Len(symbols) :
              symbols[p].id = resolved_references[i].resolved_symbol_id
    /\ \A p \in 1..Len(symbols) :
          LET refs == symbols[p].references
          IN /\ \A j \in 1..Len(refs) : refs[j] \in 1..Len(resolved_references)
             /\ \A j \in 1..(Len(refs) - 1) : refs[j] < refs[j + 1]
    /\ \A id \in 1..Len(resolved_references) :
          /\ Cardinality({p \in 1..Len(symbols) :
                             Occurrences(symbols[p].references, id) > 0}) = 1
          /\ \A p \in 1..Len(symbols) : Occurrences(symbols[p].references, id) <= 1
    /\ SumOfLengths(symbols) = Len(resolved_references)

\* Three references shared by two symbols, the later symbol resolved first.
C13_Witness ==
    /\ Len(symbols) = 2
    /\ symbols[1].references = <<2>>
    /\ symbols[2].references = <<1, 3>>
    /\ Len(resolved_references) = 3

\* ------------------------------------------------------------------ C14
\* C14: a resolve_reference call that traps on an unknown symbol_id leaves the
\* arena and every references list as they were before the call, whatever the
\* batch.
C14_TrapStep ==
    (last'.op = "resolve_reference" /\ last'.ret = Trap) =>
        /\ resolved_references' = resolved_references
        /\ symbols' = symbols

C14_TrapCommitsNothing == [][C14_TrapStep]_vars

\* A batch of two resolved to an unknown symbol on a store that holds entries.
C14_Witness ==
    /\ last.op = "resolve_reference"
    /\ last.ret = Trap
    /\ Len(last.arg.references) = 2
    /\ Len(symbols) = 2
    /\ Len(resolved_references) = 1

\* ------------------------------------------------------------------ C15
\* C15: resolve_reference(a ++ b, sid) leaves the store that resolve_reference(a,
\* sid) followed by resolve_reference(b, sid) leaves, for every way of cutting
\* the batch in two; resolve_reference([], sid) leaves the store unchanged.
C15_ResolveStep ==
    (last'.op = "resolve_reference" /\ last'.ret = Unit) =>
        LET refs == last'.arg.references
            sid == last'.arg.symbol_id
        IN /\ \A cut \in 0..Len(refs) :
                 LET a == SubSeq(refs, 1, cut)
                     b == SubSeq(refs, cut + 1, Len(refs))
                     first == resolve_reference(symbols, resolved_references, a, sid)
                     second == resolve_reference(first.symbols,
                                                 first.resolved_references, b, sid)
                 IN /\ first.ret = Unit
                    /\ second.ret = Unit
                    /\ symbols' = second.symbols
                    /\ resolved_references' = second.resolved_references
           /\ refs = <<>> =>
                 symbols' = symbols /\ resolved_references' = resolved_references

C15_BatchSplitting == [][C15_ResolveStep]_vars

\* A batch of two appended to a symbol that already lists one reference.
C15_Witness ==
    /\ last.op = "resolve_reference"
    /\ last.ret = Unit
    /\ last.arg.symbol_id = 1
    /\ last.arg.references = <<"a", "b">>
    /\ symbols[1].references = <<1, 2, 3>>

====
